---- MODULE Spec2Model ----
(***************************************************************************)
(* Model of scripts/process_dataset.py: the command-line entry point, the  *)
(* orchestrator process_dataset, the chunkers, the rate-limited embedding  *)
(* batcher, the aggregator and the two writes to the datastore.            *)
(*                                                                         *)
(* Strings are sequences of one-character strings, so that slicing,        *)
(* joining and str.split() are computed and not assumed.  The embedding    *)
(* provider and the datastore are external services: a call either raises  *)
(* or answers as its interface says (one vector per input, in order).      *)
(* chunk_size, batch_size and tpm_limit are parameters of the chunkers and *)
(* of the batcher; the model ranges over small values of them, drawn when  *)
(* process_dataset calls the chunker.                                      *)
(***************************************************************************)
EXTENDS Integers, Sequences, FiniteSets, TLC

\* ---------------------------------------------------------------- bounds
MaxRows == 3
MaxLen == 3
MaxPages == 2
MaxChunkSize == 2
MaxBatchSize == 2
MaxTpm == 2
EmbDim == 2

\* ------------------------------------------------------ program constants
MAX_TOKENS == 8191

\* Python's None, and a variable not yet bound
None == "None"
\* an optional value: Nothing, or Some(v)
Nothing == <<>>
Some(v) == <<v>>
NA == "NA"

Chars == {"x", " "}
Whitespace == {" ", "\n"}
DatasetIds == {"d1", "d2"}
Extensions == {".csv", ".pdf", ".md", ".txt", ".xls", ".xlsx", ".docx"}
Columns == <<"a", "b">>
CellValues == {NA, "x"}

\* ------------------------------------------------------- string helpers
Min(a, b) == IF a < b THEN a ELSE b

\* s[lo:hi] with 0-based, half-open Python indices, clipped to the length
Slice(s, lo, hi) == SubSeq(s, lo + 1, Min(hi, Len(s)))

\* range(0, n, step) as the ascending sequence of its values
Range(n, step) ==
    [k \in 1..((n + step - 1) \div step) |-> (k - 1) * step]

RECURSIVE Join(_, _)
\* sep.join(parts)
Join(parts, sep) ==
    IF Len(parts) = 0 THEN <<>>
    ELSE IF Len(parts) = 1 THEN parts[1]
    ELSE parts[1] \o sep \o Join(Tail(parts), sep)

\* len(content.split()): the number of maximal runs of non-whitespace
WordCount(content) ==
    Cardinality({k \in 1..Len(content) :
        /\ content[k] \notin Whitespace
        /\ (k = 1 \/ content[k - 1] \in Whitespace)})

RECURSIVE SumSeq(_)
SumSeq(ns) == IF Len(ns) = 0 THEN 0 ELSE ns[1] + SumSeq(Tail(ns))

RECURSIVE Filter(_, _)
Filter(s, keep) ==
    IF Len(s) = 0 THEN <<>>
    ELSE (IF keep[1] THEN <<s[1]>> ELSE <<>>) \o Filter(Tail(s), Tail(keep))

\* ------------------------------------------------------------- chunkers
\* f"{col}: {row[col]}" for the columns whose value is not NA, joined by " "
RenderRow(row) ==
    Join(Filter([c \in 1..Len(Columns) |-> <<Columns[c], ":", " ", row[c]>>],
                [c \in 1..Len(Columns) |-> row[c] # NA]),
         <<" ">>)

\* variant: chunk_end = i + chunk_size, not clamped to the row count
CsvChunks_NoClamp(dataframe, id, size) ==
    LET starts == Range(Len(dataframe), size)
    IN  [k \in 1..Len(starts) |->
            [dataset_id |-> id,
             content |-> Join([r \in 1..Len(Slice(dataframe, starts[k], starts[k] + size))
                                 |-> RenderRow(Slice(dataframe, starts[k], starts[k] + size)[r])],
                              <<"\n">>),
             metadata |-> [chunk_start |-> starts[k],
                           chunk_end |-> starts[k] + size],
             embedding |-> Nothing]]

\* the chunk list built by process_csv_with_batching
CsvChunks(dataframe, id, size) ==
    LET starts == Range(Len(dataframe), size)
    IN  [k \in 1..Len(starts) |->
            [dataset_id |-> id,
             content |-> Join([r \in 1..Len(Slice(dataframe, starts[k], starts[k] + size))
                                 |-> RenderRow(Slice(dataframe, starts[k], starts[k] + size)[r])],
                              <<"\n">>),
             metadata |-> [chunk_start |-> starts[k],
                           chunk_end |-> Min(starts[k] + size, Len(dataframe))],
             embedding |-> Nothing]]

\* variant: only the full windows, the shorter final window is dropped
TextChunks_DropTail(content, size) ==
    [k \in 1..(Len(content) \div size) |->
        Slice(content, (k - 1) * size, k * size)]

\* [content[i:i + chunk_size] for i in range(0, len(content), chunk_size)]
TextChunks(content, size) ==
    LET starts == Range(Len(content), size)
    IN  [k \in 1..Len(starts) |-> Slice(content, starts[k], starts[k] + size)]

\* ------------------------------------------------- embedding provider
\* the vector the provider produces as its s-th vector of the run
ProviderVector(s) == [d \in 1..EmbDim |-> s * EmbDim + d]

\* response.data of one embeddings.create call: one vector per input string,
\* in the order submitted; produced counts the vectors of earlier calls
ProviderResponse(inputs, produced) ==
    [j \in 1..Len(inputs) |-> ProviderVector(produced + j)]

\* ------------------------------------------------------------- batcher
\* variant: chunks[i:i + batch_size - 1], one chunk short
Batch_Short(chs, i, size) == Slice(chs, i, i + size - 1)

\* chunks[i:i + batch_size]
Batch(chs, i, size) == Slice(chs, i, i + size)

\* [chunk["content"] for chunk in batch]
BatchContents(batch) == [j \in 1..Len(batch) |-> batch[j].content]

\* sum(len(content.split()) for content in batch_contents)
TokenCount(contents) ==
    SumSeq([j \in 1..Len(contents) |-> WordCount(contents[j])])

\* variant: token_count >= tpm_limit
NeedsWait_AtLimit(token_count, limit) == token_count >= limit

\* if token_count > tpm_limit
NeedsWait(token_count, limit) == token_count > limit

\* token_count / tpm_limit * 60, as the exact fraction num/den of seconds
WaitTime(token_count, limit) == [num |-> token_count * 60, den |-> limit]

\* variant: chunks[j]["embedding"] = embedding, the batch offset forgotten
Attach_NoOffset(chs, i, batch_embeddings) ==
    [k \in 1..Len(chs) |->
        IF k <= Len(batch_embeddings)
        THEN [chs[k] EXCEPT !.embedding = batch_embeddings[k]]
        ELSE chs[k]]

\* batch[j]["embedding"] = embedding: batch[j] is the dict chunks[i + j]
Attach(chs, i, batch_embeddings) ==
    [k \in 1..Len(chs) |->
        IF k - 1 >= i /\ k - 1 < i + Len(batch_embeddings)
        THEN [chs[k] EXCEPT !.embedding = batch_embeddings[k - i]]
        ELSE chs[k]]

\* chunk[:MAX_TOKENS] when len(chunk) > MAX_TOKENS
Truncate(chunk) ==
    IF Len(chunk) > MAX_TOKENS THEN Slice(chunk, 0, MAX_TOKENS) ELSE chunk

\* ---------------------------------------------------------- aggregator
\* np.mean(embeddings, axis=0).tolist(): the element-wise mean, kept as the
\* exact fraction sum[d]/n; the mean of an empty list is the scalar nan
\* (with a RuntimeWarning), not an error
aggregate_embeddings(embs) ==
    IF Len(embs) = 0 THEN [sum |-> <<>>, n |-> 0]
    ELSE [sum |-> [d \in 1..EmbDim |->
                      SumSeq([k \in 1..Len(embs) |-> embs[k][d]])],
          n |-> Len(embs)]

\* the scalar nan that np.mean gives for no vectors: 0/0
IsNaN(v) == v.n = 0

\* ------------------------------------------------------------ dispatch
\* variant: an unknown extension falls through to the text chunker
DispatchTarget_TextFallback(ext) ==
    IF ext = ".csv" THEN "csv_read"
    ELSE IF ext = ".pdf" THEN "pdf_read"
    ELSE IF ext \in {".xls", ".xlsx"} THEN "xls_read"
    ELSE "text_read"

\* the if/elif chain of process_dataset on file_ext
DispatchTarget(ext) ==
    IF ext = ".csv" THEN "csv_read"
    ELSE IF ext = ".pdf" THEN "pdf_read"
    ELSE IF ext \in {".md", ".txt"} THEN "text_read"
    ELSE IF ext \in {".xls", ".xlsx"} THEN "xls_read"
    ELSE "unsupported"

\* --------------------------------------------------------------- state
VARIABLES
    argc,               \* len(sys.argv)
    payloadFile,        \* what argv[1] names: "missing", "malformed", "nokeys", "ok"
    chunk_size, batch_size, tpm_limit,  \* the chunker's arguments, 0 before the call
    pc,                 \* position of the script
    exc,                \* the exception in flight, or None
    error,              \* the exception process_dataset caught and printed
    exitStatus,         \* the process's exit status, Nothing while it runs
    dataset_id, file_ext,
    document,           \* the parsed input: the dataframe, or the text
    chunks,             \* the chunk list of the running chunker
    embeddings,         \* the running result list of the embedding loop
    i,                  \* the loop variable of the embedding loop
    rows, aggregated_embedding, schema, tags,
    events,             \* sleeps and provider requests, in the order made
    updateCalls,        \* payloads of datasets.update(...).execute()
    upsertCalls,        \* payloads of dataset_rows.upsert(...).execute()
    datasets,           \* the dataset record's fields written by this run
    dataset_rows        \* the rows written by this run

vars == <<argc, payloadFile, chunk_size, batch_size, tpm_limit, pc, exc,
          error, exitStatus, dataset_id, file_ext, document, chunks,
          embeddings, i,
          rows, aggregated_embedding, schema, tags, events, updateCalls,
          upsertCalls, datasets, dataset_rows>>

cliVars == <<argc, payloadFile, chunk_size, batch_size, tpm_limit>>
storeVars == <<updateCalls, upsertCalls, datasets, dataset_rows>>
resultVars == <<rows, aggregated_embedding, schema, tags>>
loopVars == <<document, chunks, embeddings, i>>

\* strings over Chars of length at most n
Strings(n) == UNION {[1..k -> Chars] : k \in 0..n}
PageTexts == Strings(1)
Rows == [1..Len(Columns) -> CellValues]
Dataframes == UNION {[1..k -> Rows] : k \in 0..MaxRows}

\* the provider requests made so far, and the vectors they produced
Requests == SelectSeq(events, LAMBDA e : e.kind = "request")
Produced == SumSeq([k \in 1..Len(Requests) |->
                IF Requests[k].ok THEN Requests[k].size ELSE 0])

Init ==
    /\ argc \in 1..3
    /\ payloadFile \in {"missing", "malformed", "nokeys", "ok"}
    /\ chunk_size = 0 /\ batch_size = 0 /\ tpm_limit = 0
    /\ pc = "main"
    /\ exc = None /\ error = None /\ exitStatus = Nothing
    /\ dataset_id = None /\ file_ext = None
    /\ document = Nothing /\ chunks = <<>> /\ embeddings = <<>> /\ i = 0
    /\ rows = Nothing /\ aggregated_embedding = Nothing
    /\ schema = Nothing /\ tags = Nothing
    /\ events = <<>>
    /\ updateCalls = <<>> /\ upsertCalls = <<>>
    /\ datasets = Nothing /\ dataset_rows = Nothing

\* an exception leaves the current statement
Raise(kind) ==
    /\ exc' = kind
    /\ pc' = "raised"

\* ------------------------------------------------------------ __main__
\* len(sys.argv) != 2: usage message, sys.exit(1)
Main_Usage ==
    /\ pc = "main" /\ argc # 2
    /\ pc' = "exited" /\ exitStatus' = Some(1)
    /\ UNCHANGED <<cliVars, exc, error, dataset_id, file_ext, loopVars,
                   resultVars, events, storeVars>>

\* open(payload_file) raises FileNotFoundError: sys.exit(1)
Main_NoFile ==
    /\ pc = "main" /\ argc = 2 /\ payloadFile = "missing"
    /\ pc' = "exited" /\ exitStatus' = Some(1)
    /\ UNCHANGED <<cliVars, exc, error, dataset_id, file_ext, loopVars,
                   resultVars, events, storeVars>>

\* json.load raises JSONDecodeError: sys.exit(1)
Main_BadJson ==
    /\ pc = "main" /\ argc = 2 /\ payloadFile = "malformed"
    /\ pc' = "exited" /\ exitStatus' = Some(1)
    /\ UNCHANGED <<cliVars, exc, error, dataset_id, file_ext, loopVars,
                   resultVars, events, storeVars>>

\* process_dataset(payload) is called
Main_Call ==
    /\ pc = "main" /\ argc = 2 /\ payloadFile \in {"nokeys", "ok"}
    /\ pc' = "parse"
    /\ UNCHANGED <<cliVars, exc, error, exitStatus, dataset_id, file_ext,
                   loopVars, resultVars, events, storeVars>>

\* process_dataset returned and the script ends
Main_End ==
    /\ pc = "returned"
    /\ pc' = "exited" /\ exitStatus' = Some(0)
    /\ UNCHANGED <<cliVars, exc, error, dataset_id, file_ext, loopVars,
                   resultVars, events, storeVars>>

\* ----------------------------------------------------- process_dataset
\* payload["id"], payload["URI"]: a missing key raises KeyError
Parse_KeyError ==
    /\ pc = "parse" /\ payloadFile = "nokeys"
    /\ Raise("KeyError")
    /\ UNCHANGED <<cliVars, error, exitStatus, dataset_id, file_ext,
                   loopVars, resultVars, events, storeVars>>

Parse_Ok ==
    /\ pc = "parse" /\ payloadFile = "ok"
    /\ dataset_id' \in DatasetIds
    /\ pc' = "download"
    /\ UNCHANGED <<cliVars, exc, error, exitStatus, file_ext, loopVars,
                   resultVars, events, storeVars>>

\* download_file raises (requests error, non-2xx status)
Download_Fail ==
    /\ pc = "download"
    /\ Raise("DownloadFailure")
    /\ UNCHANGED <<cliVars, error, exitStatus, dataset_id, file_ext,
                   loopVars, resultVars, events, storeVars>>

\* download_file returns; file_ext = Path(file_path).suffix.lower()
Download_Ok ==
    /\ pc = "download"
    /\ file_ext' \in Extensions
    /\ pc' = "dispatch"
    /\ UNCHANGED <<cliVars, exc, error, exitStatus, dataset_id, loopVars,
                   resultVars, events, storeVars>>

\* the branch of the if/elif chain that calls a chunker, with the chunker's
\* arguments: chunk_size for all, batch_size and tpm_limit for the batched
\* CSV path (the spreadsheet path fails before it uses any of them)
Dispatch ==
    /\ pc = "dispatch" /\ DispatchTarget(file_ext) # "unsupported"
    /\ pc' = DispatchTarget(file_ext)
    /\ chunk_size' \in IF DispatchTarget(file_ext) = "xls_read"
                       THEN {0} ELSE 1..MaxChunkSize
    /\ batch_size' \in IF DispatchTarget(file_ext) = "csv_read"
                       THEN 1..MaxBatchSize ELSE {0}
    /\ tpm_limit' \in IF DispatchTarget(file_ext) = "csv_read"
                      THEN 1..MaxTpm ELSE {0}
    /\ UNCHANGED <<argc, payloadFile, exc, error, exitStatus, dataset_id,
                   file_ext, loopVars, resultVars, events, storeVars>>

\* else: raise ValueError(f"Unsupported file type: {file_ext}")
Dispatch_Unsupported ==
    /\ pc = "dispatch" /\ DispatchTarget(file_ext) = "unsupported"
    /\ Raise("UnsupportedFileType")
    /\ UNCHANGED <<cliVars, error, exitStatus, dataset_id, file_ext,
                   loopVars, resultVars, events, storeVars>>

\* variant: except ValueError; any other exception leaves process_dataset and
\* the interpreter ends with a traceback and status 1
Handler_ValueErrorOnly ==
    /\ pc = "raised"
    /\ IF exc = "UnsupportedFileType"
       THEN error' = exc /\ exc' = None /\ pc' = "returned"
            /\ UNCHANGED exitStatus
       ELSE pc' = "exited" /\ exitStatus' = Some(1)
            /\ UNCHANGED <<exc, error>>
    /\ UNCHANGED <<cliVars, dataset_id, file_ext, loopVars,
                   resultVars, events, storeVars>>

\* except Exception as e: print(...); process_dataset returns normally
Handler ==
    /\ pc = "raised"
    /\ error' = exc /\ exc' = None
    /\ pc' = "returned"
    /\ UNCHANGED <<cliVars, exitStatus, dataset_id, file_ext, loopVars,
                   resultVars, events, storeVars>>

\* ------------------------------------------- process_csv_with_batching
\* pd.read_csv raises (empty file, tokenizing error)
CsvRead_Fail ==
    /\ pc = "csv_read"
    /\ Raise("ParseFailure")
    /\ UNCHANGED <<cliVars, error, exitStatus, dataset_id, file_ext,
                   loopVars, resultVars, events, storeVars>>

\* pd.read_csv returns a dataframe; schema, tags and the chunk list are built
CsvRead_Ok ==
    /\ pc = "csv_read"
    /\ \E dataframe \in Dataframes :
        /\ document' = Some(dataframe)
        /\ chunks' = CsvChunks(dataframe, dataset_id, chunk_size)
    /\ schema' = Some([fields |-> [c \in 1..Len(Columns) |->
                                [name |-> Columns[c], type |-> "object"]]])
    /\ tags' = Some([c \in 1..Len(Columns) |-> [name |-> Columns[c]]])
    /\ embeddings' = <<>> /\ i' = 0
    /\ pc' = "batch_head"
    /\ UNCHANGED <<cliVars, exc, error, exitStatus, dataset_id, file_ext,
                   rows, aggregated_embedding, events, storeVars>>

\* ------------------------------------- generate_embeddings_with_rate_limit
CurrentBatch == Batch(chunks, i, batch_size)
CurrentTokens == TokenCount(BatchContents(CurrentBatch))

\* token_count > tpm_limit: time.sleep(wait_time)
Batch_Sleep ==
    /\ pc = "batch_head" /\ i < Len(chunks)
    /\ NeedsWait(CurrentTokens, tpm_limit)
    /\ events' = Append(events,
            [kind |-> "sleep", batch |-> i, input |-> <<>>, size |-> 0,
             ok |-> TRUE, output |-> <<>>,
             wait |-> WaitTime(CurrentTokens, tpm_limit)])
    /\ pc' = "batch_submit"
    /\ UNCHANGED <<cliVars, exc, error, exitStatus, dataset_id, file_ext,
                   loopVars, resultVars, storeVars>>

\* token_count <= tpm_limit: straight to the request
Batch_NoSleep ==
    /\ pc = "batch_head" /\ i < Len(chunks)
    /\ ~NeedsWait(CurrentTokens, tpm_limit)
    /\ pc' = "batch_submit"
    /\ UNCHANGED <<cliVars, exc, error, exitStatus, dataset_id, file_ext,
                   loopVars, resultVars, events, storeVars>>

\* client.embeddings.create answers; embeddings attached and appended
Batch_Submit_Ok ==
    /\ pc = "batch_submit"
    /\ LET contents == BatchContents(CurrentBatch)
           batch_embeddings == ProviderResponse(contents, Produced)
       IN  /\ events' = Append(events,
                  [kind |-> "request", batch |-> i, input |-> contents,
                   size |-> Len(contents), ok |-> TRUE,
                   output |-> batch_embeddings, wait |-> None])
           /\ chunks' = Attach(chunks, i, batch_embeddings)
           /\ embeddings' = embeddings \o batch_embeddings
    /\ i' = i + batch_size
    /\ pc' = "batch_head"
    /\ UNCHANGED <<cliVars, exc, error, exitStatus, dataset_id, file_ext,
                   document, resultVars, storeVars>>

\* variant: the except prints and does not re-raise, the loop goes on
Batch_Submit_Fail_Swallowed ==
    /\ pc = "batch_submit"
    /\ events' = Append(events,
            [kind |-> "request", batch |-> i,
             input |-> BatchContents(Batch(chunks, i, batch_size)),
             size |-> Len(Batch(chunks, i, batch_size)), ok |-> FALSE,
             output |-> <<>>, wait |-> None])
    /\ i' = i + batch_size
    /\ pc' = "batch_head"
    /\ UNCHANGED <<cliVars, exc, error, exitStatus, dataset_id, file_ext,
                   document, chunks, embeddings, resultVars, storeVars>>

\* client.embeddings.create raises: except prints and re-raises
Batch_Submit_Fail ==
    /\ pc = "batch_submit"
    /\ events' = Append(events,
            [kind |-> "request", batch |-> i,
             input |-> BatchContents(CurrentBatch),
             size |-> Len(CurrentBatch), ok |-> FALSE, output |-> <<>>,
             wait |-> None])
    /\ Raise("EmbeddingProviderFailure")
    /\ UNCHANGED <<cliVars, error, exitStatus, dataset_id, file_ext,
                   loopVars, resultVars, storeVars>>

\* the loop ends; process_csv_with_batching aggregates and returns
Csv_Return ==
    /\ pc = "batch_head" /\ i >= Len(chunks)
    /\ aggregated_embedding' = Some(aggregate_embeddings(embeddings))
    /\ rows' = Some(chunks)
    /\ pc' = "update"
    /\ UNCHANGED <<cliVars, exc, error, exitStatus, dataset_id, file_ext,
                   loopVars, schema, tags, events, storeVars>>

\* ------------------------------ process_text_or_markdown, process_pdf
\* open/read raises (decode error)
TextRead_Fail ==
    /\ pc = "text_read"
    /\ Raise("ParseFailure")
    /\ UNCHANGED <<cliVars, error, exitStatus, dataset_id, file_ext,
                   loopVars, resultVars, events, storeVars>>

\* content = file.read(); chunks = the character windows
TextRead_Ok ==
    /\ pc = "text_read"
    /\ \E content \in Strings(MaxLen) :
        /\ document' = Some(content)
        /\ chunks' = TextChunks(content, chunk_size)
    /\ embeddings' = <<>> /\ i' = 0
    /\ pc' = "chunk_embed"
    /\ UNCHANGED <<cliVars, exc, error, exitStatus, dataset_id, file_ext,
                   resultVars, events, storeVars>>

\* PdfReader or extract_text raises
PdfRead_Fail ==
    /\ pc = "pdf_read"
    /\ Raise("ParseFailure")
    /\ UNCHANGED <<cliVars, error, exitStatus, dataset_id, file_ext,
                   loopVars, resultVars, events, storeVars>>

\* content = " ".join(page.extract_text() for page in reader.pages)
PdfRead_Ok ==
    /\ pc = "pdf_read"
    /\ \E n \in 0..MaxPages : \E pages \in [1..n -> PageTexts] :
        /\ document' = Some(Join(pages, <<" ">>))
        /\ chunks' = TextChunks(Join(pages, <<" ">>), chunk_size)
    /\ embeddings' = <<>> /\ i' = 0
    /\ pc' = "chunk_embed"
    /\ UNCHANGED <<cliVars, exc, error, exitStatus, dataset_id, file_ext,
                   resultVars, events, storeVars>>

\* generate_embeddings_for_chunks: one request per chunk, answered
Chunk_Embed_Ok ==
    /\ pc = "chunk_embed" /\ i < Len(chunks)
    /\ events' = Append(events,
            [kind |-> "request", batch |-> i,
             input |-> <<Truncate(chunks[i + 1])>>,
             size |-> 1, ok |-> TRUE,
             output |-> ProviderResponse(<<Truncate(chunks[i + 1])>>, Produced),
             wait |-> None])
    /\ embeddings' = embeddings \o
            ProviderResponse(<<Truncate(chunks[i + 1])>>, Produced)
    /\ i' = i + 1
    /\ UNCHANGED <<cliVars, pc, exc, error, exitStatus, dataset_id, file_ext,
                   document, chunks, resultVars, storeVars>>

\* generate_embeddings_for_chunks: the request raises, printed and re-raised
Chunk_Embed_Fail ==
    /\ pc = "chunk_embed" /\ i < Len(chunks)
    /\ events' = Append(events,
            [kind |-> "request", batch |-> i,
             input |-> <<Truncate(chunks[i + 1])>>,
             size |-> 1, ok |-> FALSE, output |-> <<>>, wait |-> None])
    /\ Raise("EmbeddingProviderFailure")
    /\ UNCHANGED <<cliVars, error, exitStatus, dataset_id, file_ext,
                   loopVars, resultVars, storeVars>>

\* the rows built from chunks and embeddings by the text and PDF paths
TextRows(chs, embs, id) ==
    [k \in 1..Len(chs) |->
        [dataset_id |-> id, content |-> chs[k], embedding |-> embs[k],
         metadata |-> <<>>]]

\* rows are built, the aggregate computed; schema = None, tags = []
Text_Return ==
    /\ pc = "chunk_embed" /\ i >= Len(chunks)
    /\ rows' = Some(TextRows(chunks, embeddings, dataset_id))
    /\ aggregated_embedding' = Some(aggregate_embeddings(embeddings))
    /\ schema' = Some(None) /\ tags' = Some(<<>>)
    /\ pc' = "update"
    /\ UNCHANGED <<cliVars, exc, error, exitStatus, dataset_id, file_ext,
                   loopVars, events, storeVars>>

\* ------------------------------------------- process_xsl_with_batching
\* pd.read_excel has no chunksize parameter: the call raises before the
\* first page is read, the except prints and re-raises
XlsRead_Fail ==
    /\ pc = "xls_read"
    /\ Raise("TypeError")
    /\ UNCHANGED <<cliVars, error, exitStatus, dataset_id, file_ext,
                   loopVars, resultVars, events, storeVars>>

\* ---------------------------------------------------------- persistence
UpdatePayload ==
    [id |-> dataset_id, schema |-> schema[1], tags |-> tags[1],
     embedding |-> aggregated_embedding[1]]

\* datasets.update(...).execute() raises: nothing is written
Update_Raise ==
    /\ pc = "update"
    /\ updateCalls' = Append(updateCalls, UpdatePayload)
    /\ Raise("APIError")
    /\ UNCHANGED <<cliVars, error, exitStatus, dataset_id, file_ext,
                   loopVars, resultVars, events, upsertCalls, datasets,
                   dataset_rows>>

\* the update matched no record: response.data is empty, Exception raised
Update_NoData ==
    /\ pc = "update"
    /\ updateCalls' = Append(updateCalls, UpdatePayload)
    /\ Raise("PersistenceFailure")
    /\ UNCHANGED <<cliVars, error, exitStatus, dataset_id, file_ext,
                   loopVars, resultVars, events, upsertCalls, datasets,
                   dataset_rows>>

\* the update is committed and reported
Update_Ok ==
    /\ pc = "update"
    /\ updateCalls' = Append(updateCalls, UpdatePayload)
    /\ datasets' = Some(UpdatePayload)
    /\ pc' = "insert"
    /\ UNCHANGED <<cliVars, exc, error, exitStatus, dataset_id, file_ext,
                   loopVars, resultVars, events, upsertCalls, dataset_rows>>

\* dataset_rows.upsert(rows).execute() raises: no row is written
Insert_Raise ==
    /\ pc = "insert"
    /\ upsertCalls' = Append(upsertCalls, rows[1])
    /\ Raise("APIError")
    /\ UNCHANGED <<cliVars, error, exitStatus, dataset_id, file_ext,
                   loopVars, resultVars, events, updateCalls, datasets,
                   dataset_rows>>

\* the upsert is committed; the print that follows adds response.count (an
\* int or None) to a str and raises TypeError
Insert_Ok ==
    /\ pc = "insert"
    /\ upsertCalls' = Append(upsertCalls, rows[1])
    /\ dataset_rows' = rows
    /\ Raise("TypeError")
    /\ UNCHANGED <<cliVars, error, exitStatus, dataset_id, file_ext,
                   loopVars, resultVars, events, updateCalls, datasets>>

Next ==
    \/ Main_Usage \/ Main_NoFile \/ Main_BadJson \/ Main_Call \/ Main_End
    \/ Parse_KeyError \/ Parse_Ok \/ Download_Fail \/ Download_Ok
    \/ Dispatch \/ Dispatch_Unsupported \/ Handler
    \/ CsvRead_Fail \/ CsvRead_Ok
    \/ Batch_Sleep \/ Batch_NoSleep \/ Batch_Submit_Ok \/ Batch_Submit_Fail
    \/ Csv_Return
    \/ TextRead_Fail \/ TextRead_Ok \/ PdfRead_Fail \/ PdfRead_Ok
    \/ Chunk_Embed_Ok \/ Chunk_Embed_Fail \/ Text_Return
    \/ XlsRead_Fail
    \/ Update_Raise \/ Update_NoData \/ Update_Ok
    \/ Insert_Raise \/ Insert_Ok

Spec == Init /\ [][Next]_vars

\* ============================================================ properties
NonPaginated == {".csv", ".pdf", ".md", ".txt"}
Supported == NonPaginated \cup {".xls", ".xlsx"}

\* process_dataset was entered by this run
Entered == argc = 2 /\ payloadFile \in {"nokeys", "ok"}

\* generate_embeddings_with_rate_limit has returned normally
BatcherReturned == file_ext = ".csv" /\ rows # Nothing

\* the least n with n * d >= m
CeilDiv(m, d) == CHOOSE n \in 0..m : n * d >= m /\ (n = 0 \/ (n - 1) * d < m)

RECURSIVE Concat(_)
Concat(ss) == IF Len(ss) = 0 THEN <<>> ELSE ss[1] \o Concat(Tail(ss))

\* C1: a run on a non-paginated path that ended in failure has either both
\* writes committed or neither: never the dataset record update without the
\* row upsert, nor the rows without the dataset record update.  (Stated for
\* documents with at least one chunk, so that a violation does not rest on
\* the aggregate of an empty document.)
C1_NoPartialCommit ==
    (/\ pc = "exited" /\ error # None
     /\ file_ext \in NonPaginated /\ Len(chunks) >= 1)
        => ((datasets # Nothing) <=> (dataset_rows # Nothing))

\* C2: when the batcher returns normally for N chunks it returns N
\* embeddings, the k-th is the vector the provider produced for the k-th
\* chunk's content, and that vector is the k-th chunk's 'embedding'.
C2_OneEmbeddingPerChunk ==
    BatcherReturned =>
        LET inputs == Concat([r \in 1..Len(Requests) |-> Requests[r].input])
            outputs == Concat([r \in 1..Len(Requests) |-> Requests[r].output])
        IN  /\ Len(embeddings) = Len(chunks)
            /\ Len(inputs) = Len(chunks)
            /\ Len(outputs) = Len(chunks)
            /\ \A k \in 1..Len(chunks) :
                /\ inputs[k] = chunks[k].content
                /\ outputs[k] = embeddings[k]
                /\ chunks[k].embedding = embeddings[k]
                /\ rows[1][k].embedding = embeddings[k]

C2_Witness ==
    /\ BatcherReturned
    /\ Len(chunks) = 3 /\ batch_size = 2
    /\ chunks[1].content # chunks[3].content

\* C3: once a batch's provider call has failed in the batcher, nothing
\* follows it: no later sleep or request, no second request for that batch,
\* and no call of the dataset record update or of the row upsert.
C3_FailFast ==
    \A e \in 1..Len(events) :
        (file_ext = ".csv" /\ events[e].kind = "request" /\ ~events[e].ok)
            => /\ e = Len(events)
               /\ updateCalls = <<>> /\ upsertCalls = <<>>
               /\ datasets = Nothing /\ dataset_rows = Nothing
               /\ pc \in {"raised", "returned", "exited"}

C3_Witness ==
    /\ pc = "exited" /\ file_ext = ".csv"
    /\ Len(events) >= 3
    /\ ~events[Len(events)].ok
    /\ \A e \in 1..(Len(events) - 1) : events[e].ok

\* C4: with an extension outside .csv .pdf .md .txt .xls .xlsx the run fails
\* with the unsupported-file-type error, without any provider request and
\* without any call of the dataset update or of the row upsert.
C4_UnsupportedExtension ==
    (file_ext # None /\ file_ext \notin Supported) =>
        /\ pc \in {"dispatch", "raised", "returned", "exited"}
        /\ pc = "raised" => exc = "UnsupportedFileType"
        /\ pc \in {"returned", "exited"} => error = "UnsupportedFileType"
        /\ events = <<>>
        /\ updateCalls = <<>> /\ upsertCalls = <<>>
        /\ datasets = Nothing /\ dataset_rows = Nothing

C4_Witness ==
    /\ pc = "exited" /\ file_ext = ".docx"
    /\ error = "UnsupportedFileType"

\* C5: a failure inside process_dataset is caught there, process_dataset
\* returns and the process exits with status 0; a wrong argument count, a
\* malformed payload and a missing payload file exit with status 1 and no
\* persistence call is made.
C5_ExitStatus ==
    /\ (pc = "exited" /\ Entered) => (exitStatus = Some(0) /\ exc = None)
    /\ (pc = "raised") => (Entered /\ exc # None /\ exitStatus = Nothing)
    /\ (pc = "returned") => (exc = None /\ exitStatus = Nothing)
    /\ (error # None) => (Entered /\ pc \in {"returned", "exited"})
    /\ (pc = "exited" /\ ~Entered) =>
        /\ exitStatus = Some(1)
        /\ error = None
        /\ updateCalls = <<>> /\ upsertCalls = <<>>
        /\ datasets = Nothing /\ dataset_rows = Nothing

C5_Witness ==
    /\ pc = "exited" /\ exitStatus = Some(0)
    /\ error = "APIError" /\ datasets # Nothing

\* C6: for a dataframe of R >= 1 rows and chunk size C the tabular chunker
\* gives ceil(R/C) chunks whose [chunk_start, chunk_end) ranges partition
\* [0, R) in order, each holding 1..C rows, each carrying the dataset_id.
C6_TabularPartition ==
    (file_ext = ".csv" /\ document # Nothing /\ Len(document[1]) >= 1) =>
        LET R == Len(document[1])
            n == Len(chunks)
        IN  /\ n = CeilDiv(R, chunk_size)
            /\ chunks[1].metadata.chunk_start = 0
            /\ chunks[n].metadata.chunk_end = R
            /\ \A k \in 1..(n - 1) :
                  chunks[k + 1].metadata.chunk_start
                      = chunks[k].metadata.chunk_end
            /\ \A k \in 1..n :
                /\ chunks[k].metadata.chunk_end
                      - chunks[k].metadata.chunk_start \in 1..chunk_size
                /\ chunks[k].dataset_id = dataset_id

C6_Witness ==
    /\ file_ext = ".csv" /\ document # Nothing
    /\ Len(document[1]) = 3 /\ chunk_size = 2
    /\ Len(chunks) = 2 /\ dataset_id = "d2"

TextPaths == {".pdf", ".md", ".txt"}

\* C7: for a text of length L and window W the text chunker gives ceil(L/W)
\* chunks, each of length W except a possibly shorter last one, whose
\* concatenation in order is the text; each row's content is its chunk.
C7_TextReconstruction ==
    (file_ext \in TextPaths /\ document # Nothing) =>
        LET L == Len(document[1])
            n == Len(chunks)
        IN  /\ n = CeilDiv(L, chunk_size)
            /\ \A k \in 1..(n - 1) : Len(chunks[k]) = chunk_size
            /\ n >= 1 => Len(chunks[n]) \in 1..chunk_size
            /\ Concat(chunks) = document[1]
            /\ rows # Nothing =>
                /\ Len(rows[1]) = n
                /\ \A k \in 1..n : rows[1][k].content = chunks[k]
            /\ dataset_rows # Nothing =>
                /\ Len(dataset_rows[1]) = n
                /\ \A k \in 1..n : dataset_rows[1][k].content = chunks[k]

C7_Witness ==
    /\ file_ext = ".txt" /\ dataset_rows # Nothing
    /\ Len(document[1]) = 3 /\ chunk_size = 2
    /\ Len(dataset_rows[1]) = 2

\* the sizes of the batches the batcher slices from n chunks
BatchSizes(n, size) ==
    [k \in 1..Len(Range(n, size)) |->
        Len(Batch([c \in 1..n |-> c], Range(n, size)[k], size))]

\* the batches of 120 chunks with batch_size 50
BatchSizesExample == BatchSizes(120, 50)

\* C8: the batcher's requests are the consecutive slices of the chunk list:
\* the r-th request carries the contents of chunks (r-1)*batch_size up to
\* r*batch_size, at most batch_size of them and exactly batch_size unless it
\* is the last; a normal return has made ceil(N/batch_size) requests; 120
\* chunks in batches of 50 are requests of 50, 50 and 20.
C8_Batching ==
    /\ file_ext = ".csv" =>
        LET reqs == Requests
        IN  /\ \A r \in 1..Len(reqs) :
                /\ reqs[r].batch = (r - 1) * batch_size
                /\ reqs[r].size = Len(reqs[r].input)
                /\ reqs[r].size \in 1..batch_size
                /\ reqs[r].size < batch_size =>
                      reqs[r].batch + reqs[r].size = Len(chunks)
                /\ \A j \in 1..reqs[r].size :
                      reqs[r].input[j]
                          = chunks[(r - 1) * batch_size + j].content
            /\ BatcherReturned =>
                  Len(reqs) = CeilDiv(Len(chunks), batch_size)
    /\ BatchSizesExample = <<50, 50, 20>>

C8_Witness ==
    /\ BatcherReturned
    /\ Len(chunks) = 3 /\ batch_size = 2 /\ Len(Requests) = 2
    /\ Requests[2].size = 1

RECURSIVE Words(_, _)
\* the words of s after the word w in progress: what s.split() returns
Words(s, w) ==
    IF Len(s) = 0 THEN (IF Len(w) = 0 THEN <<>> ELSE <<w>>)
    ELSE IF s[1] \in Whitespace
         THEN (IF Len(w) = 0 THEN <<>> ELSE <<w>>) \o Words(Tail(s), <<>>)
         ELSE Words(Tail(s), Append(w, s[1]))

\* the estimated cost of the batch starting at offset b
Cost(b) ==
    LET batch == Slice(chunks, b, b + batch_size)
    IN  SumSeq([j \in 1..Len(batch) |-> Len(Words(batch[j].content, <<>>))])

\* C9: a batch's cost is the sum of the word counts of its contents; the
\* batcher sleeps before a batch iff that cost exceeds tpm_limit, for
\* cost / tpm_limit * 60 seconds; the sleep comes right before that batch's
\* request, which still carries the whole batch; cost 200 with limit 100
\* waits 120 seconds.
C9_RateLimit ==
    /\ file_ext = ".csv" =>
        /\ \A e \in 1..Len(events) :
            LET cost == Cost(events[e].batch)
            IN  /\ events[e].kind = "sleep" =>
                    /\ cost > tpm_limit
                    /\ events[e].wait.num * tpm_limit
                          = cost * 60 * events[e].wait.den
                    /\ e < Len(events) =>
                        /\ events[e + 1].kind = "request"
                        /\ events[e + 1].batch = events[e].batch
                    /\ e = Len(events) => pc = "batch_submit"
                /\ events[e].kind = "request" =>
                    /\ (cost > tpm_limit) <=>
                          (/\ e > 1
                           /\ events[e - 1].kind = "sleep"
                           /\ events[e - 1].batch = events[e].batch)
                    /\ events[e].size
                          = Len(Slice(chunks, events[e].batch,
                                      events[e].batch + batch_size))
        /\ pc = "batch_submit" =>
              ((Cost(i) > tpm_limit) <=>
                  (/\ events # <<>>
                   /\ events[Len(events)].kind = "sleep"
                   /\ events[Len(events)].batch = i))
    /\ WaitTime(200, 100).num = 120 * WaitTime(200, 100).den

C9_Witness ==
    /\ file_ext = ".csv" /\ Len(events) = 3
    /\ events[1].kind = "request" /\ events[1].ok
    /\ events[2].kind = "sleep" /\ events[3].kind = "request"
    /\ Cost(events[1].batch) = tpm_limit

\* C10: an empty document gives no chunk and no provider request, and its
\* aggregation fails, so that the dataset record update is never called for
\* it (nor with a nan vector) and nothing is persisted.
C10_EmptyDocumentFails ==
    /\ (document # Nothing /\ Len(document[1]) = 0) =>
        /\ chunks = <<>> /\ events = <<>>
        /\ updateCalls = <<>> /\ upsertCalls = <<>>
        /\ datasets = Nothing /\ dataset_rows = Nothing
    /\ \A c \in 1..Len(updateCalls) : ~IsNaN(updateCalls[c].embedding)

====
